---- MODULE Spec2Model ----
(***************************************************************************)
(* Battleship: Ship, Board (battleship/core.py), Strategy / RandomStrategy *)
(* (battleship/strategy.py) and Game (battleship/game.py).                 *)
(*                                                                         *)
(* Three specifications share the definitions of the classes:              *)
(*   BoardSpec     one Board driven by place_ship, random_placement and    *)
(*                 receive_shot;                                           *)
(*   StrategySpec  one RandomStrategy driven by register_result,           *)
(*                 get_next_shot and reset;                                *)
(*   Spec          one Game driven by setup_game, player_shoot, ai_shoot   *)
(*                 and play_turn.                                          *)
(*                                                                         *)
(* Python's random module is a deterministic generator with hidden state.  *)
(* The variable rng is that state: every random.choice / random.randint    *)
(* reads it and advances it.  The behaviours differ in the seed.           *)
(***************************************************************************)
EXTENDS Integers, Sequences, FiniteSets, TLC

VARIABLES
    board,      \* BoardSpec: the Board object
    strategy,   \* StrategySpec: the RandomStrategy object
    game,       \* Spec: the Game object (its boards and its strategy inside)
    rng,        \* state of the random module's generator
    setups,     \* number of setup_game (BoardSpec: random_placement) calls so far
    op,         \* name of the last call
    arg,        \* argument of the last call
    ret,        \* what the last call returned (or the exception it raised)
    bench       \* BenchSpec: the locals of benchmark_strategy

vars == <<board, strategy, game, rng, setups, op, arg, ret, bench>>

----------------------------------------------------------------------------
(* Bounds of the model.                                                    *)

\* Largest size of the stand-alone board.
MaxBoardSize == 5
\* Seeds of the generator explored: 0..MaxSeed.
MaxSeed == 1
\* Board size of the stand-alone strategy is 1..MaxStrategySize.
MaxStrategySize == 2
\* Longest shot history of the stand-alone strategy.
MaxHistory == 5
\* setup_game (in BoardSpec: random_placement) is called at most this many
\* times.
MaxSetups == 2
\* setup_game is called on a running game while at most this many shots are
\* recorded on the two boards together.
MaxStaleShots == 1
\* play_turn is called on a running game while turn_count is below this.
MaxTurns == 2
\* A side shoots on its own (player_shoot, ai_shoot) in a running game while
\* the other side has at most this many recorded shots, or it has fewer itself.
MaxLead == 2
\* benchmark_strategy: largest num_games.
MaxGames == 2

----------------------------------------------------------------------------
(* core.py: the enumerations.                                              *)

Unknown == "UNKNOWN"
Miss == "MISS"
Hit == "HIT"

\* class ShipType(Enum), in definition order.
ShipTypeDef ==
    << [name |-> "CARRIER",    value |-> 5],
       [name |-> "BATTLESHIP", value |-> 4],
       [name |-> "CRUISER",    value |-> 3],
       [name |-> "SUBMARINE",  value |-> 3],
       [name |-> "DESTROYER",  value |-> 2] >>

ShipTypeNames == { ShipTypeDef[i].name : i \in DOMAIN ShipTypeDef }

ShipTypeValue(n) ==
    ShipTypeDef[CHOOSE i \in DOMAIN ShipTypeDef : ShipTypeDef[i].name = n].value

\* ShipType.<n>: an Enum name whose value repeats an earlier member's value is
\* an alias of that member, so the attribute evaluates to the first member
\* defined with the value.  The member is represented by its own name.
ShipType(n) ==
    LET first == CHOOSE i \in DOMAIN ShipTypeDef :
                     /\ ShipTypeDef[i].value = ShipTypeValue(n)
                     /\ \A j \in 1..(i - 1) : ShipTypeDef[j].value # ShipTypeValue(n)
    IN  ShipTypeDef[first].name

\* list(Orientation)
Orientations == << "HORIZONTAL", "VERTICAL" >>

\* The sentinel position of strategy.py and game.py.
Sentinel == << -1, -1 >>

----------------------------------------------------------------------------
(* The random module.                                                      *)

\* The generator's output stream (the Lehmer sequence x -> 3x mod 31 from 1),
\* repeated cyclically.  The state rng is the position in the stream.
RandomStream ==
    << 1, 3, 9, 27, 19, 26, 16, 17, 20, 29, 25, 13, 8, 24, 10,
       30, 28, 22, 4, 12, 5, 15, 14, 11, 2, 6, 18, 23, 7, 21 >>

\* The generator's state after n draws.
RngAfter(r, n) == (r + n) % Len(RandomStream)

\* The generator's next state.
NextRng(r) == RngAfter(r, 1)

\* The number a draw in state r is computed from.
RandomBits(r) == RandomStream[r + 1]

\* random.choice(seq): [value, rng].
RandomChoice(r, seq) ==
    [value |-> seq[(RandomBits(r) % Len(seq)) + 1], rng |-> NextRng(r)]

\* random.randint(a, b): raises ValueError on an empty range.
RandIntRaises(a, b) == b < a

RandInt(r, a, b) ==
    [value |-> a + (RandomBits(r) % (b - a + 1)), rng |-> NextRng(r)]

----------------------------------------------------------------------------
(* core.py: class Ship.                                                    *)

\* Ship.__init__
NewShip(name, orientation, start) ==
    [ ship_type      |-> ShipType(name),
      size           |-> ShipTypeValue(name),
      orientation    |-> orientation,
      start_position |-> start,
      hit_positions  |-> {} ]

\* Ship.get_positions: the list of occupied positions.
get_positions(ship) ==
    [ i \in 1..ship.size |->
        IF ship.orientation = "HORIZONTAL"
        THEN << ship.start_position[1], ship.start_position[2] + (i - 1) >>
        ELSE << ship.start_position[1] + (i - 1), ship.start_position[2] >> ]

Cells(ship) == { get_positions(ship)[i] : i \in 1..ship.size }

\* Ship.is_sunk
is_sunk(ship) == Cardinality(ship.hit_positions) = ship.size

\* register_hit without the test that the ship occupies the position.
register_hit_any_position(ship, position) ==
    IF position \notin ship.hit_positions
    THEN [ship |-> [ship EXCEPT !.hit_positions = @ \cup {position}], ret |-> TRUE]
    ELSE [ship |-> ship, ret |-> FALSE]

\* Ship.register_hit: [ship, ret].
register_hit(ship, position) ==
    IF position \in Cells(ship) /\ position \notin ship.hit_positions
    THEN [ship |-> [ship EXCEPT !.hit_positions = @ \cup {position}], ret |-> TRUE]
    ELSE [ship |-> ship, ret |-> FALSE]

----------------------------------------------------------------------------
(* core.py: class Board.                                                   *)

NoShots == [p \in {} |-> Unknown]

\* The default of Board.__init__'s size and of Strategy.__init__'s board_size.
DefaultBoardSize == 10

\* Board.__init__
NewBoard(size) == [size |-> size, ships |-> << >>, shots |-> NoShots]

\* The boundary check of place_ship (first loop).
InBounds(b, ship) ==
    \A i \in 1..ship.size :
        LET p == get_positions(ship)[i]
        IN  ~(p[1] < 0 \/ p[1] >= b.size \/ p[2] < 0 \/ p[2] >= b.size)

\* The overlap check of place_ship (second loop).
Overlaps(b, ship) ==
    \E i \in 1..Len(b.ships) : Cells(b.ships[i]) \cap Cells(ship) # {}

\* place_ship without the overlap check.
place_ship_no_overlap_check(b, ship) ==
    IF ~InBounds(b, ship) THEN [board |-> b, ret |-> FALSE]
    ELSE [board |-> [b EXCEPT !.ships = Append(@, ship)], ret |-> TRUE]

\* Board.place_ship: [board, ret].
place_ship(b, ship) ==
    IF ~InBounds(b, ship) THEN [board |-> b, ret |-> FALSE]
    ELSE IF Overlaps(b, ship) THEN [board |-> b, ret |-> FALSE]
    ELSE [board |-> [b EXCEPT !.ships = Append(@, ship)], ret |-> TRUE]

\* Index of the first ship of the list that occupies the position, 0 if none.
FirstShipAt(b, position) ==
    IF \E i \in 1..Len(b.ships) : position \in Cells(b.ships[i])
    THEN CHOOSE i \in 1..Len(b.ships) :
             /\ position \in Cells(b.ships[i])
             /\ \A j \in 1..(i - 1) : position \notin Cells(b.ships[j])
    ELSE 0

\* receive_shot without the early return for a recorded position.
receive_shot_resolves_again(b, position) ==
    LET Resolved(i) ==
            IF i # 0
            THEN [ board |-> [b EXCEPT
                                !.ships[i] = register_hit(@, position).ship,
                                !.shots = (position :> Hit) @@ @],
                   ret |-> Hit ]
            ELSE [ board |-> [b EXCEPT !.shots = (position :> Miss) @@ @],
                   ret |-> Miss ]
    IN  Resolved(FirstShipAt(b, position))

\* Board.receive_shot: [board, ret].
receive_shot(b, position) ==
    LET Resolved(i) ==
            IF i # 0
            THEN [ board |-> [b EXCEPT
                                !.ships[i] = register_hit(@, position).ship,
                                !.shots = (position :> Hit) @@ @],
                   ret |-> Hit ]
            ELSE [ board |-> [b EXCEPT !.shots = (position :> Miss) @@ @],
                   ret |-> Miss ]
    IN  IF position \in DOMAIN b.shots
        THEN [board |-> b, ret |-> b.shots[position]]
        ELSE Resolved(FirstShipAt(b, position))

\* Board.are_all_ships_sunk
are_all_ships_sunk(b) == \A i \in 1..Len(b.ships) : is_sunk(b.ships[i])

\* Board.get_ship_at_position: the ship's index in the list, 0 for None.
get_ship_at_position(b, position) == FirstShipAt(b, position)

----------------------------------------------------------------------------
(* What a call hands back: a returned value or a raised exception.         *)

Returned(v) == [raised |-> "None", value |-> v]
Raised(e) == [raised |-> e, value |-> "None"]

----------------------------------------------------------------------------
(* core.py: Board.random_placement.                                        *)

\* The local list ship_types.
ship_types == << "CARRIER", "BATTLESHIP", "CRUISER", "SUBMARINE", "DESTROYER" >>

\* range(100): attempts per ship type.
MaxAttempts == 100

\* The three draws of one attempt: orientation, row, col.
DrawPlacement(r, size, value) ==
    LET Drawn(o) ==
            LET rowHi == IF o.value = "HORIZONTAL" THEN size - 1 ELSE size - value
                colHi == IF o.value = "HORIZONTAL" THEN size - value ELSE size - 1
                WithRow(row) ==
                    LET WithCol(col) ==
                            [ raised      |-> FALSE,
                              orientation |-> o.value,
                              start       |-> << row.value, col.value >>,
                              rng         |-> col.rng ]
                    IN  IF RandIntRaises(0, colHi)
                        THEN [raised |-> TRUE, rng |-> row.rng]
                        ELSE WithCol(RandInt(row.rng, 0, colHi))
            IN  IF RandIntRaises(0, rowHi)
                THEN [raised |-> TRUE, rng |-> o.rng]
                ELSE WithRow(RandInt(o.rng, 0, rowHi))
    IN  Drawn(RandomChoice(r, Orientations))

\* Attempt k of the inner loop "for _ in range(100)": every earlier attempt
\* made its three draws and was rejected by place_ship.
Attempt(b, r, name, k) ==
    LET Placed(d, res) ==
            IF res.ret
            THEN [board |-> res.board, rng |-> d.rng, outcome |-> "placed"]
            ELSE [board |-> b, rng |-> d.rng, outcome |-> "rejected"]
        Drawn(d) ==
            IF d.raised
            THEN [board |-> b, rng |-> d.rng, outcome |-> "ValueError"]
            ELSE Placed(d, place_ship(b, NewShip(name, d.orientation, d.start)))
    IN  Drawn(DrawPlacement(RngAfter(r, 3 * (k - 1)), b.size, ShipTypeValue(name)))

\* The inner loop: it ends at the first attempt that places the ship (break)
\* or raises, and falls into its else branch when every attempt is rejected.
\* The attempt that ends the loop is the k whose earlier attempts are all
\* rejected and which is not; k = 0 when all MaxAttempts attempts are rejected.
PlaceWithRetries(b, r, name) ==
    LET EndsAt(k) ==
            IF k = 0
            THEN [board |-> b, rng |-> RngAfter(r, 3 * MaxAttempts), outcome |-> "exhausted"]
            ELSE Attempt(b, r, name, k)
    IN  EndsAt(CHOOSE k \in 0..MaxAttempts :
                   \A j \in 1..(IF k = 0 THEN MaxAttempts ELSE k) :
                       (Attempt(b, r, name, j).outcome = "rejected") <=> (j # k))

\* The outer loop "for ship_type in ship_types" from index k on.
RECURSIVE PlaceFleet(_, _, _)
PlaceFleet(b, r, k) ==
    LET After(a) ==
            IF a.outcome = "placed" THEN PlaceFleet(a.board, a.rng, k + 1)
            ELSE IF a.outcome = "exhausted"
            THEN [board |-> a.board, rng |-> a.rng, ret |-> Returned(FALSE)]
            ELSE [board |-> a.board, rng |-> a.rng, ret |-> Raised("ValueError")]
    IN  IF k > Len(ship_types) THEN [board |-> b, rng |-> r, ret |-> Returned(TRUE)]
        ELSE After(PlaceWithRetries(b, r, ship_types[k]))

\* The loops of random_placement on a board of size n whose ship list was just
\* cleared, for every state of the generator.  The loops read the board's size
\* and ship list only, never its shot record.
RandomFleet ==
    [ n \in (1..MaxBoardSize) \cup { DefaultBoardSize }, r \in 0..(Len(RandomStream) - 1) |->
        PlaceFleet(NewBoard(n), r, 1) ]

\* Board.random_placement: [board, rng, ret].
random_placement(b, r) ==
    LET Placed(f) ==
            [board |-> [b EXCEPT !.ships = f.board.ships], rng |-> f.rng, ret |-> f.ret]
    IN  Placed(RandomFleet[b.size, r])

----------------------------------------------------------------------------
(* strategy.py: class Strategy and class RandomStrategy.                   *)

\* Strategy.__init__
NewStrategy(board_size) ==
    [board_size |-> board_size, shots |-> << >>, hits |-> << >>, misses |-> << >>]

\* register_result keeping the hits only in the shot history.
register_result_forgets_misses(s, position, result) ==
    [ s EXCEPT
        !.shots  = IF result = Hit THEN Append(@, position) ELSE @,
        !.hits   = IF result = Hit THEN Append(@, position) ELSE @,
        !.misses = IF result = Hit THEN @
                   ELSE IF result = Miss THEN Append(@, position) ELSE @ ]

\* Strategy.register_result
register_result(s, position, result) ==
    [ s EXCEPT
        !.shots  = Append(@, position),
        !.hits   = IF result = Hit THEN Append(@, position) ELSE @,
        !.misses = IF result = Hit THEN @
                   ELSE IF result = Miss THEN Append(@, position) ELSE @ ]

\* range(n) x range(n) in the order of the two nested loops.
RowMajor(n) ==
    [ k \in 1..(n * n) |-> << (k - 1) \div n, (k - 1) % n >> ]

\* Strategy.get_available_positions
get_available_positions(s) ==
    LET shot == { s.shots[i] : i \in 1..Len(s.shots) }
        NotShot(p) == p \notin shot
    IN  SelectSeq(RowMajor(s.board_size), NotShot)

\* reset keeping the shot history.
reset_keeps_shots(s) == [s EXCEPT !.hits = << >>, !.misses = << >>]

\* Strategy.reset
reset(s) == [s EXCEPT !.shots = << >>, !.hits = << >>, !.misses = << >>]

\* get_next_shot drawing from every position of the board.
get_next_shot_from_all(s, r) ==
    LET Chosen(c) == [ret |-> c.value, rng |-> c.rng]
        From(available) ==
            IF available = << >>
            THEN [ret |-> Sentinel, rng |-> r]
            ELSE Chosen(RandomChoice(r, RowMajor(s.board_size)))
    IN  From(get_available_positions(s))

\* RandomStrategy.get_next_shot: [ret, rng].
get_next_shot(s, r) ==
    LET Chosen(c) == [ret |-> c.value, rng |-> c.rng]
        From(available) ==
            IF available = << >>
            THEN [ret |-> Sentinel, rng |-> r]
            ELSE Chosen(RandomChoice(r, available))
    IN  From(get_available_positions(s))

----------------------------------------------------------------------------
(* game.py: class Game.  Every method maps [game, rng] to [game, rng, ret]. *)

\* Game.__init__ with the default RandomStrategy.
NewGame(board_size) ==
    [ player_board |-> NewBoard(board_size),
      ai_board     |-> NewBoard(board_size),
      board_size   |-> board_size,
      turn_count   |-> 0,
      game_over    |-> FALSE,
      winner       |-> "None",
      ai_strategy  |-> NewStrategy(board_size) ]

\* Game.setup_game.  An exception of a random_placement leaves the method
\* at that statement.
setup_game(g, r) ==
    LET AiPlaced(g1, a) ==
            IF a.ret.raised # "None"
            THEN [game |-> [g1 EXCEPT !.ai_board = a.board], rng |-> a.rng, ret |-> a.ret]
            ELSE [ game |-> [g1 EXCEPT !.ai_board = a.board, !.ai_strategy = reset(@)],
                   rng  |-> a.rng,
                   ret  |-> Returned("None") ]
        PlayerPlaced(p) ==
            IF p.ret.raised # "None"
            THEN [game |-> [g EXCEPT !.player_board = p.board], rng |-> p.rng, ret |-> p.ret]
            ELSE AiPlaced([g EXCEPT !.player_board = p.board],
                          random_placement(g.ai_board, p.rng))
    IN  PlayerPlaced(random_placement(g.player_board, r))

\* player_shoot aimed at the player's own board.
player_shoot_at_own_board(g, r, position) ==
    LET Checked(g1, won) ==
            IF won THEN [g1 EXCEPT !.game_over = TRUE, !.winner = "Player"] ELSE g1
        Shot(res) ==
            [ game |-> Checked([g EXCEPT !.player_board = res.board],
                               are_all_ships_sunk(res.board)),
              rng  |-> r,
              ret  |-> Returned(res.ret) ]
    IN  IF g.game_over THEN [game |-> g, rng |-> r, ret |-> Returned(Unknown)]
        ELSE Shot(receive_shot(g.player_board, position))

\* player_shoot without the check of game_over.
player_shoot_unguarded(g, r, position) ==
    LET Checked(g1, won) ==
            IF won THEN [g1 EXCEPT !.game_over = TRUE, !.winner = "Player"] ELSE g1
        Shot(res) ==
            [ game |-> Checked([g EXCEPT !.ai_board = res.board],
                               are_all_ships_sunk(res.board)),
              rng  |-> r,
              ret  |-> Returned(res.ret) ]
    IN  Shot(receive_shot(g.ai_board, position))

\* Game.player_shoot
player_shoot(g, r, position) ==
    LET Checked(g1, won) ==
            IF won THEN [g1 EXCEPT !.game_over = TRUE, !.winner = "Player"] ELSE g1
        Shot(res) ==
            [ game |-> Checked([g EXCEPT !.ai_board = res.board],
                               are_all_ships_sunk(res.board)),
              rng  |-> r,
              ret  |-> Returned(res.ret) ]
    IN  IF g.game_over THEN [game |-> g, rng |-> r, ret |-> Returned(Unknown)]
        ELSE Shot(receive_shot(g.ai_board, position))

\* ai_shoot without the check of the strategy's sentinel.
ai_shoot_shoots_sentinel(g, r) ==
    LET Checked(g1, lost) ==
            IF lost THEN [g1 EXCEPT !.game_over = TRUE, !.winner = "AI"] ELSE g1
        Shot(n, res) ==
            [ game |-> Checked([g EXCEPT
                                  !.player_board = res.board,
                                  !.ai_strategy = register_result(@, n.ret, res.ret)],
                               are_all_ships_sunk(res.board)),
              rng  |-> n.rng,
              ret  |-> Returned(<< n.ret, res.ret >>) ]
        Aimed(n) == Shot(n, receive_shot(g.player_board, n.ret))
    IN  IF g.game_over
        THEN [game |-> g, rng |-> r, ret |-> Returned(<< Sentinel, Unknown >>)]
        ELSE Aimed(get_next_shot(g.ai_strategy, r))

\* Game.ai_shoot
ai_shoot(g, r) ==
    LET Checked(g1, lost) ==
            IF lost THEN [g1 EXCEPT !.game_over = TRUE, !.winner = "AI"] ELSE g1
        Shot(n, res) ==
            [ game |-> Checked([g EXCEPT
                                  !.player_board = res.board,
                                  !.ai_strategy = register_result(@, n.ret, res.ret)],
                               are_all_ships_sunk(res.board)),
              rng  |-> n.rng,
              ret  |-> Returned(<< n.ret, res.ret >>) ]
        Aimed(n) ==
            IF n.ret = Sentinel
            THEN [game |-> g, rng |-> n.rng, ret |-> Returned(<< Sentinel, Unknown >>)]
            ELSE Shot(n, receive_shot(g.player_board, n.ret))
    IN  IF g.game_over
        THEN [game |-> g, rng |-> r, ret |-> Returned(<< Sentinel, Unknown >>)]
        ELSE Aimed(get_next_shot(g.ai_strategy, r))

\* play_turn without the check of game_over after the player's shot.
play_turn_always_ai(g, r, player_shot_position) ==
    LET Both(ps, as) ==
            [ game |-> as.game, rng |-> as.rng,
              ret  |-> Returned([ player_shot   |-> player_shot_position,
                                  player_result |-> ps.ret.value,
                                  ai_shot       |-> as.ret.value[1],
                                  ai_result     |-> as.ret.value[2],
                                  game_over     |-> as.game.game_over,
                                  winner        |-> as.game.winner,
                                  turn_count    |-> as.game.turn_count ]) ]
        PlayerShot(ps) ==
            Both(ps, ai_shoot(ps.game, ps.rng))
    IN  IF g.game_over
        THEN [ game |-> g, rng |-> r,
               ret  |-> Returned([game_over |-> TRUE, winner |-> g.winner]) ]
        ELSE PlayerShot(player_shoot([g EXCEPT !.turn_count = @ + 1],
                                     r, player_shot_position))

\* play_turn counting the turn once per shot taken.
play_turn_counts_shots(g, r, player_shot_position) ==
    LET Both(ps, as) ==
            [ game |-> as.game, rng |-> as.rng,
              ret  |-> Returned([ player_shot   |-> player_shot_position,
                                  player_result |-> ps.ret.value,
                                  ai_shot       |-> as.ret.value[1],
                                  ai_result     |-> as.ret.value[2],
                                  game_over     |-> as.game.game_over,
                                  winner        |-> as.game.winner,
                                  turn_count    |-> as.game.turn_count ]) ]
        PlayerShot(ps) ==
            IF ps.game.game_over
            THEN [ game |-> ps.game, rng |-> ps.rng,
                   ret  |-> Returned([ player_shot   |-> player_shot_position,
                                       player_result |-> ps.ret.value,
                                       game_over     |-> TRUE,
                                       winner        |-> ps.game.winner ]) ]
            ELSE Both(ps, ai_shoot([ps.game EXCEPT !.turn_count = @ + 1], ps.rng))
    IN  IF g.game_over
        THEN [ game |-> g, rng |-> r,
               ret  |-> Returned([game_over |-> TRUE, winner |-> g.winner]) ]
        ELSE PlayerShot(player_shoot([g EXCEPT !.turn_count = @ + 1],
                                     r, player_shot_position))

\* Game.play_turn: the returned dict is a record with the dict's keys.
play_turn(g, r, player_shot_position) ==
    LET Both(ps, as) ==
            [ game |-> as.game, rng |-> as.rng,
              ret  |-> Returned([ player_shot   |-> player_shot_position,
                                  player_result |-> ps.ret.value,
                                  ai_shot       |-> as.ret.value[1],
                                  ai_result     |-> as.ret.value[2],
                                  game_over     |-> as.game.game_over,
                                  winner        |-> as.game.winner,
                                  turn_count    |-> as.game.turn_count ]) ]
        PlayerShot(ps) ==
            IF ps.game.game_over
            THEN [ game |-> ps.game, rng |-> ps.rng,
                   ret  |-> Returned([ player_shot   |-> player_shot_position,
                                       player_result |-> ps.ret.value,
                                       game_over     |-> TRUE,
                                       winner        |-> ps.game.winner ]) ]
            ELSE Both(ps, ai_shoot(ps.game, ps.rng))
    IN  IF g.game_over
        THEN [ game |-> g, rng |-> r,
               ret  |-> Returned([game_over |-> TRUE, winner |-> g.winner]) ]
        ELSE PlayerShot(player_shoot([g EXCEPT !.turn_count = @ + 1],
                                     r, player_shot_position))

----------------------------------------------------------------------------
(* benchmark.py: benchmark_strategy.                                       *)

\* The locals of benchmark_strategy before its loop; pc is the loop the
\* function is in: "for" between two games, "while" inside a game, "raised"
\* when an exception has left the function.
NewBenchmark(num_games) ==
    [num_games |-> num_games, i |-> 0, turn_count |-> 0, turns |-> << >>, pc |-> "for"]

\* One pass of "for i in range(num_games)" up to the inner loop: a new Board
\* of the default size, its random_placement, the strategy's reset.
\* [bench, board, strategy, rng, ret]
start_game(bn, s, r) ==
    LET Placed(p) ==
            IF p.ret.raised # "None"
            THEN [ bench |-> [bn EXCEPT !.pc = "raised"], board |-> p.board,
                   strategy |-> s, rng |-> p.rng, ret |-> p.ret ]
            ELSE [ bench |-> [bn EXCEPT !.turn_count = 0, !.pc = "while"],
                   board |-> p.board, strategy |-> reset(s), rng |-> p.rng,
                   ret |-> p.ret ]
    IN  Placed(random_placement(NewBoard(DefaultBoardSize), r))

\* One pass of "while True": the strategy's next shot, the board's answer,
\* the strategy's record of it, and the test that ends the game.
\* [bench, board, strategy, rng, shot, result]
take_shot(bn, b, s, r) ==
    LET Counted(bn1, sunk) ==
            IF sunk
            THEN [bn1 EXCEPT !.turns = Append(@, bn1.turn_count), !.i = @ + 1, !.pc = "for"]
            ELSE bn1
        Shot(n, res) ==
            [ bench    |-> Counted([bn EXCEPT !.turn_count = @ + 1],
                                   are_all_ships_sunk(res.board)),
              board    |-> res.board,
              strategy |-> register_result(s, n.ret, res.ret),
              rng      |-> n.rng,
              shot     |-> n.ret,
              result   |-> res.ret ]
        Aimed(n) == Shot(n, receive_shot(b, n.ret))
    IN  Aimed(get_next_shot(s, r))

----------------------------------------------------------------------------
(* Inputs of the calls.                                                    *)

Seeds == 0..MaxSeed

\* Size of the Game's boards: the smallest board on which the fleet fits, a
\* side of the Carrier's length.
GameBoardSize == ShipTypeValue("CARRIER")

\* Sizes of the stand-alone board: small boards, on which the Carrier does not
\* fit, and the largest board.
BoardSizes == (1..(MaxBoardSize - 3)) \cup { MaxBoardSize }

\* Ships handed to place_ship by a caller.
ShipInputs ==
    { NewShip(name, o, start) :
        name \in {"DESTROYER", "SUBMARINE"},
        o \in {"HORIZONTAL", "VERTICAL"},
        start \in { << 0, 0 >>, << 1, 1 >> } }
    \cup { NewShip("DESTROYER", "VERTICAL", << -1, 0 >>) }

\* Positions handed to Board.receive_shot by a caller.
ShotInputs == { << 0, 0 >>, << 1, 1 >>, Sentinel }

\* First position of the board, in row-major order, with no recorded shot.
ScanNext(b) ==
    LET Fresh(p) == p \notin DOMAIN b.shots
        fresh == SelectSeq(RowMajor(b.size), Fresh)
    IN  IF fresh = << >> THEN {} ELSE { fresh[1] }

\* Positions the player shoots at: the next fresh cell of a row-major sweep,
\* or a position outside the board (once, and again).
PlayerInputs(b) == ScanNext(b) \cup { Sentinel }

\* Positions reported to a stand-alone strategy: its next available position,
\* the first cell (again) or the sentinel.
ReportInputs(s) ==
    LET available == get_available_positions(s)
    IN  (IF available = << >> THEN {} ELSE { available[1] }) \cup { << 0, 0 >>, Sentinel }

RecordedShots(b) == Cardinality(DOMAIN b.shots)

----------------------------------------------------------------------------
(* BoardSpec: a Board and its callers.                                     *)

BoardInit ==
    /\ board \in { NewBoard(n) : n \in BoardSizes }
    /\ strategy = NewStrategy(1)
    /\ game = NewGame(GameBoardSize)
    /\ rng \in Seeds
    /\ setups = 0
    /\ op = "init"
    /\ arg = "None"
    /\ ret = Returned("None")
    /\ bench = NewBenchmark(0)

BoardPlaceShip ==
    \E ship \in ShipInputs :
        \E res \in { place_ship(board, ship) } :
            /\ board' = res.board
            /\ op' = "place_ship"
            /\ arg' = ship
            /\ ret' = Returned(res.ret)
            /\ UNCHANGED << strategy, game, rng, setups, bench >>

BoardRandomPlacement ==
    /\ setups < MaxSetups
    /\ \E res \in { random_placement(board, rng) } :
           /\ board' = res.board
           /\ rng' = res.rng
           /\ setups' = setups + 1
           /\ op' = "random_placement"
           /\ arg' = "None"
           /\ ret' = res.ret
           /\ UNCHANGED << strategy, game, bench >>

BoardReceiveShot ==
    \E position \in ShotInputs :
        \E res \in { receive_shot(board, position) } :
            /\ board' = res.board
            /\ op' = "receive_shot"
            /\ arg' = position
            /\ ret' = Returned(res.ret)
            /\ UNCHANGED << strategy, game, rng, setups, bench >>

BoardNext == BoardPlaceShip \/ BoardRandomPlacement \/ BoardReceiveShot

BoardSpec == BoardInit /\ [][BoardNext]_vars

----------------------------------------------------------------------------
(* StrategySpec: a RandomStrategy and its callers.                         *)

StrategyInit ==
    /\ board = NewBoard(1)
    /\ strategy \in { NewStrategy(n) : n \in 1..MaxStrategySize }
    /\ game = NewGame(GameBoardSize)
    /\ rng \in Seeds
    /\ setups = 0
    /\ op = "init"
    /\ arg = "None"
    /\ ret = Returned("None")
    /\ bench = NewBenchmark(0)

StrategyRegisterResult ==
    /\ Len(strategy.shots) < MaxHistory
    /\ \E position \in ReportInputs(strategy), result \in {Hit, Miss} :
        /\ strategy' = register_result(strategy, position, result)
        /\ op' = "register_result"
        /\ arg' = << position, result >>
        /\ ret' = Returned("None")
        /\ UNCHANGED << board, game, rng, setups, bench >>

StrategyGetNextShot ==
    \E res \in { get_next_shot(strategy, rng) } :
        /\ rng' = res.rng
        /\ op' = "get_next_shot"
        /\ arg' = "None"
        /\ ret' = Returned(res.ret)
        /\ UNCHANGED << board, strategy, game, setups, bench >>

StrategyReset ==
    /\ strategy' = reset(strategy)
    /\ op' = "reset"
    /\ arg' = "None"
    /\ ret' = Returned("None")
    /\ UNCHANGED << board, game, rng, setups, bench >>

StrategyNext == StrategyRegisterResult \/ StrategyGetNextShot \/ StrategyReset

StrategySpec == StrategyInit /\ [][StrategyNext]_vars

----------------------------------------------------------------------------
(* Spec: a Game and its callers.                                           *)

Init ==
    /\ board = NewBoard(1)
    /\ strategy = NewStrategy(1)
    /\ game = NewGame(GameBoardSize)
    /\ rng \in Seeds
    /\ setups = 0
    /\ op = "init"
    /\ arg = "None"
    /\ ret = Returned("None")
    /\ bench = NewBenchmark(0)

SetupGame ==
    /\ setups < MaxSetups
    /\ \/ game.game_over
       \/ RecordedShots(game.player_board) + RecordedShots(game.ai_board) <= MaxStaleShots
    /\ \E res \in { setup_game(game, rng) } :
           /\ game' = res.game
           /\ rng' = res.rng
           /\ setups' = setups + 1
           /\ op' = "setup_game"
           /\ arg' = "None"
           /\ ret' = res.ret
           /\ UNCHANGED << board, strategy, bench >>

PlayerShoot ==
    /\ \/ game.game_over
       \/ RecordedShots(game.player_board) <= MaxLead
       \/ RecordedShots(game.ai_board) < MaxLead
    /\ \E position \in PlayerInputs(game.ai_board) :
           \E res \in { player_shoot(game, rng, position) } :
               /\ game' = res.game
               /\ rng' = res.rng
               /\ op' = "player_shoot"
               /\ arg' = position
               /\ ret' = res.ret
               /\ UNCHANGED << board, strategy, setups, bench >>

AiShoot ==
    /\ \/ game.game_over
       \/ RecordedShots(game.ai_board) <= MaxLead
       \/ RecordedShots(game.player_board) < MaxLead
    /\ \E res \in { ai_shoot(game, rng) } :
           /\ game' = res.game
           /\ rng' = res.rng
           /\ op' = "ai_shoot"
           /\ arg' = "None"
           /\ ret' = res.ret
           /\ UNCHANGED << board, strategy, setups, bench >>

PlayTurn ==
    /\ game.game_over \/ game.turn_count < MaxTurns
    /\ \E position \in PlayerInputs(game.ai_board) :
        \E res \in { play_turn(game, rng, position) } :
            /\ game' = res.game
            /\ rng' = res.rng
            /\ op' = "play_turn"
            /\ arg' = position
            /\ ret' = res.ret
            /\ UNCHANGED << board, strategy, setups, bench >>

Next == SetupGame \/ PlayerShoot \/ AiShoot \/ PlayTurn

Spec == Init /\ [][Next]_vars

----------------------------------------------------------------------------
(* ShipSpec: the ships of a Board, hit by the board's receive_shot and by  *)
(* callers of Ship.register_hit.                                           *)

\* Positions handed to Ship.register_hit by a caller.
HitInputs == ShotInputs \cup { << 0, 1 >> }

ShipRegisterHit ==
    \E i \in 1..Len(board.ships), position \in HitInputs :
        \E res \in { register_hit(board.ships[i], position) } :
            /\ board' = [board EXCEPT !.ships[i] = res.ship]
            /\ op' = "register_hit"
            /\ arg' = << i, position >>
            /\ ret' = Returned(res.ret)
            /\ UNCHANGED << strategy, game, rng, setups, bench >>

ShipNext == BoardPlaceShip \/ BoardReceiveShot \/ ShipRegisterHit

ShipSpec == BoardInit /\ [][ShipNext]_vars

----------------------------------------------------------------------------
(* PlaySpec: main.py's play_interactive_game.  A Game is constructed, set  *)
(* up once before any shot and then driven by play_turn alone, with        *)
(* positions on the board, for as long as the caller goes on.              *)

\* Board sizes of the played game: one on which the Carrier does not fit, and
\* the smallest on which it does.
PlaySizes == { MaxBoardSize - 3, GameBoardSize }

\* Positions the player enters, all on the board: the next fresh cell of a
\* row-major sweep, or the first cell (again).
TurnInputs(b) == ScanNext(b) \cup { << 0, 0 >> }

PlayInit ==
    /\ board = NewBoard(1)
    /\ strategy = NewStrategy(1)
    /\ game \in { NewGame(n) : n \in PlaySizes }
    /\ rng \in Seeds
    /\ setups = 0
    /\ op = "init"
    /\ arg = "None"
    /\ ret = Returned("None")
    /\ bench = NewBenchmark(0)

PlaySetupGame ==
    /\ setups = 0
    /\ \E res \in { setup_game(game, rng) } :
           /\ game' = res.game
           /\ rng' = res.rng
           /\ setups' = setups + 1
           /\ op' = "setup_game"
           /\ arg' = "None"
           /\ ret' = res.ret
           /\ UNCHANGED << board, strategy, bench >>

PlayPlayTurn ==
    /\ setups = 1
    /\ game.game_over \/ game.turn_count <= game.board_size * game.board_size
    /\ \E position \in TurnInputs(game.ai_board) :
        \E res \in { play_turn(game, rng, position) } :
            /\ game' = res.game
            /\ rng' = res.rng
            /\ op' = "play_turn"
            /\ arg' = position
            /\ ret' = res.ret
            /\ UNCHANGED << board, strategy, setups, bench >>

PlayNext == PlaySetupGame \/ PlayPlayTurn

PlaySpec == PlayInit /\ [][PlayNext]_vars

----------------------------------------------------------------------------
(* BenchSpec: benchmark.py's benchmark_strategy, one strategy object       *)
(* playing num_games games, each alone against a new board.                *)

BenchInit ==
    /\ board = NewBoard(1)
    /\ strategy = NewStrategy(DefaultBoardSize)
    /\ game = NewGame(GameBoardSize)
    /\ rng \in Seeds
    /\ setups = 0
    /\ op = "init"
    /\ arg = "None"
    /\ ret = Returned("None")
    /\ bench \in { NewBenchmark(n) : n \in 1..MaxGames }

BenchStartGame ==
    /\ bench.pc = "for"
    /\ bench.i < bench.num_games
    /\ \E res \in { start_game(bench, strategy, rng) } :
           /\ bench' = res.bench
           /\ board' = res.board
           /\ strategy' = res.strategy
           /\ rng' = res.rng
           /\ op' = "start_game"
           /\ arg' = "None"
           /\ ret' = res.ret
           /\ UNCHANGED << game, setups >>

BenchTakeShot ==
    /\ bench.pc = "while"
    /\ bench.turn_count <= board.size * board.size
    /\ \E res \in { take_shot(bench, board, strategy, rng) } :
           /\ bench' = res.bench
           /\ board' = res.board
           /\ strategy' = res.strategy
           /\ rng' = res.rng
           /\ op' = "take_shot"
           /\ arg' = res.shot
           /\ ret' = Returned(res.result)
           /\ UNCHANGED << game, setups >>

BenchNext == BenchStartGame \/ BenchTakeShot

BenchSpec == BenchInit /\ [][BenchNext]_vars

----------------------------------------------------------------------------
(* Vocabulary of the properties, stated without the operators above.       *)

\* The cells a ship covers: size cells from its start, to the right when
\* horizontal and downwards when vertical.
OccupiedCells(ship) ==
    { << ship.start_position[1] + (IF ship.orientation = "VERTICAL" THEN i ELSE 0),
         ship.start_position[2] + (IF ship.orientation = "HORIZONTAL" THEN i ELSE 0) >> :
      i \in 0..(ship.size - 1) }

\* The positions of an n x n board.
BoardPositions(n) == (0..(n - 1)) \X (0..(n - 1))

\* The ships of a board, as indices of its list.
ShipIndices(b) == 1..Len(b.ships)

\* Every ship of the board has as many hit cells as its size.
FleetSunk(b) ==
    \A i \in ShipIndices(b) : Cardinality(b.ships[i].hit_positions) = b.ships[i].size

\* The positions in a list.
Listed(seq) == { seq[i] : i \in 1..Len(seq) }

----------------------------------------------------------------------------
(* C1: receive_shot is idempotent per position.  In every step of a board  *)
(* driven by place_ship, random_placement and receive_shot, a position     *)
(* recorded as Hit or Miss keeps its recorded state; and a receive_shot(p)  *)
(* at a recorded position p returns the recorded state and changes neither  *)
(* a ship's hit set nor the shot record.                                    *)
C1_ReceiveShotIdempotent ==
    [][ /\ \A p \in DOMAIN board.shots :
              /\ board.shots[p] \in {Hit, Miss}
              /\ p \in DOMAIN board'.shots
              /\ board'.shots[p] = board.shots[p]
        /\ (op' = "receive_shot" /\ arg' \in DOMAIN board.shots)
              => /\ ret' = Returned(board.shots[arg'])
                 /\ board' = board
      ]_vars

\* A position was shot and missed, a ship was then placed on it, and the last
\* call, a receive_shot at that position, returned the recorded Miss.
C1_Witness ==
    /\ op = "receive_shot"
    /\ arg \in DOMAIN board.shots
    /\ board.shots[arg] = Miss
    /\ ret = Returned(Miss)
    /\ \E i \in ShipIndices(board) : arg \in OccupiedCells(board.ships[i])

----------------------------------------------------------------------------
(* C2: fleet placement invariant.  In every state of a board driven by     *)
(* place_ship and random_placement (and receive_shot), no two ships of the  *)
(* list share a cell and every cell of every ship is on the board; and      *)
(* when random_placement has just returned True the list holds exactly five *)
(* ships, in the order Carrier, Battleship, Cruiser, Submarine, Destroyer,  *)
(* one per type (no two ships of the same type).                            *)
C2_FleetPlacement ==
    /\ \A i, j \in ShipIndices(board) :
          i # j => OccupiedCells(board.ships[i]) \cap OccupiedCells(board.ships[j]) = {}
    /\ \A i \in ShipIndices(board) :
          OccupiedCells(board.ships[i]) \subseteq BoardPositions(board.size)
    /\ (op = "random_placement" /\ ret.raised = "None" /\ ret.value = TRUE)
          => /\ Len(board.ships) = 5
             /\ \A i \in ShipIndices(board) :
                   board.ships[i].ship_type = ShipType(ship_types[i])
             /\ \A i, j \in ShipIndices(board) :
                   i # j => board.ships[i].ship_type # board.ships[j].ship_type

----------------------------------------------------------------------------
(* C3: place_ship validates, then commits.  A place_ship(ship) whose ship  *)
(* has a cell off the board or on a cell of a placed ship returns False and *)
(* leaves the board unchanged; any other place_ship(ship) returns True,     *)
(* appends exactly this ship to the ship list and leaves the shot record    *)
(* unchanged.                                                               *)
C3_PlaceShipValidateThenCommit ==
    [][ op' = "place_ship" =>
          IF \/ ~(OccupiedCells(arg') \subseteq BoardPositions(board.size))
             \/ \E i \in ShipIndices(board) :
                   OccupiedCells(board.ships[i]) \cap OccupiedCells(arg') # {}
          THEN /\ ret' = Returned(FALSE)
               /\ board' = board
          ELSE /\ ret' = Returned(TRUE)
               /\ board'.ships = Append(board.ships, arg')
               /\ board'.shots = board.shots
               /\ board'.size = board.size
      ]_vars

\* A ship was accepted onto a board that already held a ship and a recorded
\* shot.
C3_Witness ==
    /\ op = "place_ship"
    /\ ret = Returned(TRUE)
    /\ Len(board.ships) >= 2
    /\ board.ships[Len(board.ships)] = arg
    /\ DOMAIN board.shots # {}

----------------------------------------------------------------------------
(* C4: the terminal transition is one-directional.  In every step of a     *)
(* game, game_over stays true once true and a winner, once "Player" or     *)
(* "AI", stays the same.                                                    *)
C4_TerminalOneDirectional ==
    [][ /\ game.game_over => game'.game_over
        /\ game.winner \in {"Player", "AI"} => game'.winner = game.winner
      ]_vars

\* The AI sank a placed fleet and the player shot afterwards: the game is
\* still over and still won by the AI.
C4_Witness ==
    /\ op = "player_shoot"
    /\ game.game_over
    /\ game.winner = "AI"
    /\ game.player_board.ships # << >>
    /\ FleetSunk(game.player_board)

----------------------------------------------------------------------------
(* C5: a Game is immutable once terminal.  From a state where game_over is *)
(* true, every call (setup_game, player_shoot, ai_shoot, play_turn) leaves  *)
(* turn_count, winner, both boards (ship lists, hit sets, shot records) and *)
(* the strategy's histories unchanged; player_shoot returns Unknown,        *)
(* ai_shoot returns ((-1,-1), Unknown) and play_turn returns the terminal   *)
(* flag and the winner only.                                                *)
C5_ImmutableOnceTerminal ==
    [][ game.game_over =>
          /\ game' = game
          /\ op' = "player_shoot" => ret' = Returned(Unknown)
          /\ op' = "ai_shoot" => ret' = Returned(<< Sentinel, Unknown >>)
          /\ op' = "play_turn"
                => ret' = Returned([game_over |-> TRUE, winner |-> game.winner])
      ]_vars

----------------------------------------------------------------------------
(* C6: the game is terminal exactly when a fleet is sunk.  In every state  *)
(* of a game, game_over is true if and only if at least one of the two     *)
(* boards reports are_all_ships_sunk().                                     *)
C6_TerminalIffFleetSunk ==
    game.game_over <=>
        (are_all_ships_sunk(game.player_board) \/ are_all_ships_sunk(game.ai_board))

----------------------------------------------------------------------------
(* C7: a play_turn whose player shot sinks the last ship of the AI's board *)
(* issues no AI shot: it leaves the strategy's histories and the player's   *)
(* board unchanged, and its summary has game_over true, winner "Player" and *)
(* no AI shot.                                                              *)
C7_NoAiShotAfterPlayerWins ==
    [][ ( /\ op' = "play_turn"
          /\ ~game.game_over
          /\ ~FleetSunk(game.ai_board)
          /\ FleetSunk(game'.ai_board) )
        => /\ game'.ai_strategy = game.ai_strategy
           /\ game'.player_board = game.player_board
           /\ ret'.value.game_over = TRUE
           /\ ret'.value.winner = "Player"
           /\ game'.winner = "Player"
           /\ "ai_shot" \notin DOMAIN ret'.value
           /\ "ai_result" \notin DOMAIN ret'.value
      ]_vars

\* The last call, a play_turn, took the player's shot, which left the placed
\* fleet of the AI's board sunk, and took no AI shot.
C7_Witness ==
    /\ op = "play_turn"
    /\ "player_shot" \in DOMAIN ret.value
    /\ ret.value.player_result = Hit
    /\ "ai_shot" \notin DOMAIN ret.value
    /\ game.ai_board.ships # << >>
    /\ FleetSunk(game.ai_board)
    /\ game.winner = "Player"

----------------------------------------------------------------------------
(* C8: turn counting.  A play_turn on a game that is not over adds exactly *)
(* 1 to turn_count, whether one or two shots follow; a play_turn on a game  *)
(* that is over, and every setup_game, player_shoot and ai_shoot, leave it  *)
(* unchanged; so turn_count never decreases.                                *)
C8_TurnCounting ==
    [][ /\ (op' = "play_turn" /\ ~game.game_over)
              => game'.turn_count = game.turn_count + 1
        /\ (op' = "play_turn" /\ game.game_over)
              => game'.turn_count = game.turn_count
        /\ op' \in {"setup_game", "player_shoot", "ai_shoot"}
              => game'.turn_count = game.turn_count
        /\ game'.turn_count >= game.turn_count
      ]_vars

\* Two turns were played, the second with a shot of each side.
C8_Witness ==
    /\ op = "play_turn"
    /\ game.turn_count >= 2
    /\ "ai_shot" \in DOMAIN ret.value
    /\ ret.value.ai_shot # Sentinel
    /\ ret.value.turn_count = game.turn_count

----------------------------------------------------------------------------
(* C9: RandomStrategy.get_next_shot returns the sentinel (-1,-1) exactly   *)
(* when get_available_positions() is empty, otherwise a position of the     *)
(* board that is not in the shot history; and it changes no history.        *)
C9_NextShotFresh ==
    [][ op' = "get_next_shot" =>
          /\ (ret'.value = Sentinel) <=> (get_available_positions(strategy) = << >>)
          /\ (ret'.value = Sentinel)
                <=> (BoardPositions(strategy.board_size) \subseteq Listed(strategy.shots))
          /\ ret'.value # Sentinel
                => /\ ret'.value \in BoardPositions(strategy.board_size)
                   /\ ret'.value \notin Listed(strategy.shots)
          /\ strategy' = strategy
      ]_vars

\* On a board of more than one cell every position is in the history and
\* get_next_shot returned the sentinel.
C9_Witness ==
    /\ op = "get_next_shot"
    /\ ret = Returned(Sentinel)
    /\ strategy.board_size >= 2
    /\ BoardPositions(strategy.board_size) \subseteq Listed(strategy.shots)

----------------------------------------------------------------------------
(* C10: on a game that is not over, with every board position in the       *)
(* strategy's shot history, ai_shoot returns ((-1,-1), Unknown) and changes *)
(* nothing: not the player's board, not the strategy's histories, not       *)
(* game_over, not winner.                                                   *)
C10_AiShootExhausted ==
    [][ ( /\ op' = "ai_shoot"
          /\ ~game.game_over
          /\ BoardPositions(game.board_size) \subseteq Listed(game.ai_strategy.shots) )
        => /\ ret' = Returned(<< Sentinel, Unknown >>)
           /\ game' = game
      ]_vars

\* The strategy has shot every position of the board, the player's fleet is
\* placed and not sunk, and the last call, an ai_shoot, returned the sentinel.
C10_Witness ==
    /\ op = "ai_shoot"
    /\ ~game.game_over
    /\ BoardPositions(game.board_size) \subseteq Listed(game.ai_strategy.shots)
    /\ ret = Returned(<< Sentinel, Unknown >>)
    /\ game.player_board.ships # << >>
    /\ ~FleetSunk(game.player_board)

----------------------------------------------------------------------------
(* C11: random_placement never fails fatally.  On a board of any size it   *)
(* ends by returning True or False, never by raising; and when it returns   *)
(* False the next ship type of the list had MaxAttempts attempts, all       *)
(* rejected by place_ship (the generator made 3 draws in each).             *)
C11_RandomPlacementNeverFatal ==
    op = "random_placement" =>
        /\ ret.raised = "None"
        /\ ret.value \in BOOLEAN
        /\ ret.value = FALSE =>
              /\ Len(board.ships) < Len(ship_types)
              /\ \E r \in 0..(Len(RandomStream) - 1) :
                    /\ RngAfter(r, 3 * MaxAttempts) = rng
                    /\ \A k \in 1..MaxAttempts :
                          Attempt(board, r, ship_types[Len(board.ships) + 1], k).outcome
                              = "rejected"

----------------------------------------------------------------------------
(* C12: recorded cell states agree with the fleet.  In every state of a    *)
(* board driven by place_ship, random_placement and receive_shot, a         *)
(* position recorded as Hit is a cell of a placed ship whose hit set holds  *)
(* it, and a position recorded as Miss is a cell of no placed ship.         *)
C12_RecordAgreesWithFleet ==
    \A p \in DOMAIN board.shots :
        /\ board.shots[p] = Hit =>
              \E i \in ShipIndices(board) :
                  /\ p \in OccupiedCells(board.ships[i])
                  /\ p \in board.ships[i].hit_positions
        /\ board.shots[p] = Miss =>
              \A i \in ShipIndices(board) : p \notin OccupiedCells(board.ships[i])

----------------------------------------------------------------------------
(* C13: are_all_ships_sunk() is true exactly when every ship of the list    *)
(* has as many hit cells as its size; it is false right after a successful  *)
(* random_placement; and it turns from false to true exactly at a           *)
(* receive_shot that hits the last cell not yet hit of the last ship not    *)
(* yet sunk.                                                                *)
C13_AllSunkIffEveryShipHit ==
    [][ /\ are_all_ships_sunk(board) <=> FleetSunk(board)
        /\ are_all_ships_sunk(board') <=> FleetSunk(board')
        /\ (op' = "random_placement" /\ ret'.raised = "None" /\ ret'.value = TRUE)
              => ~are_all_ships_sunk(board')
        /\ (~are_all_ships_sunk(board) /\ are_all_ships_sunk(board'))
              <=> /\ op' = "receive_shot"
                  /\ arg' \notin DOMAIN board.shots
                  /\ \E i \in ShipIndices(board) :
                        /\ arg' \in OccupiedCells(board.ships[i])
                        /\ board.ships[i].hit_positions
                              = OccupiedCells(board.ships[i]) \ { arg' }
                        /\ \A j \in ShipIndices(board) \ { i } :
                              board.ships[j].hit_positions
                                  = OccupiedCells(board.ships[j])
      ]_vars

(* C14: the hit set of a ship.  In every step of a board's ships driven by  *)
(* place_ship, receive_shot and register_hit, each ship's hit set is a      *)
(* subset of the cells the ship occupies, so it has at most size elements;  *)
(* register_hit(p) on a ship returns True and adds p to the hit set when p  *)
(* is an occupied cell not yet hit, and otherwise returns False and leaves  *)
(* the hit set as it was; no other ship changes; and a receive_shot(p)      *)
(* adds at most p to a hit set.                                             *)
C14_HitSetWithinShip ==
    [][ /\ \A i \in ShipIndices(board') :
              /\ board'.ships[i].hit_positions \subseteq OccupiedCells(board'.ships[i])
              /\ Cardinality(board'.ships[i].hit_positions) <= board'.ships[i].size
        /\ op' = "register_hit" =>
              /\ ShipIndices(board') = ShipIndices(board)
              /\ \A j \in ShipIndices(board) \ { arg'[1] } : board'.ships[j] = board.ships[j]
              /\ IF /\ arg'[2] \in OccupiedCells(board.ships[arg'[1]])
                    /\ arg'[2] \notin board.ships[arg'[1]].hit_positions
                 THEN /\ ret' = Returned(TRUE)
                      /\ board'.ships[arg'[1]] =
                            [board.ships[arg'[1]] EXCEPT !.hit_positions = @ \cup { arg'[2] }]
                 ELSE /\ ret' = Returned(FALSE)
                      /\ board'.ships[arg'[1]] = board.ships[arg'[1]]
        /\ op' = "receive_shot" =>
              /\ ShipIndices(board') = ShipIndices(board)
              /\ \A j \in ShipIndices(board) :
                    /\ board.ships[j].hit_positions \subseteq board'.ships[j].hit_positions
                    /\ board'.ships[j].hit_positions
                          \subseteq board.ships[j].hit_positions \cup { arg' }
      ]_vars

\* A register_hit refused because the cell, one of the ship's, was hit
\* before, on a board where another ship has a hit cell too.
C14_Witness ==
    /\ op = "register_hit"
    /\ ret = Returned(FALSE)
    /\ arg[2] \in board.ships[arg[1]].hit_positions
    /\ \E j \in ShipIndices(board) \ { arg[1] } : board.ships[j].hit_positions # {}

(* C15: a game always ends.  On a freshly constructed Game set up once      *)
(* before any shot and then driven by play_turn with positions on the       *)
(* board, turn_count never exceeds N * N for the board size N; while the    *)
(* game is not over every turn taken so far has put one new shot on the     *)
(* player's board, whose fleet after the set-up still has an un-hit cell,   *)
(* so fewer than N * N turns were taken and the N * N-th call at the latest *)
(* ends the game; and the strategy never has every cell of the board in its *)
(* shot history while the player's fleet is not fully sunk.                 *)
C15_GameAlwaysEnds ==
    /\ game.turn_count <= game.board_size * game.board_size
    /\ (setups = 1 /\ ~game.game_over) =>
          /\ RecordedShots(game.player_board) = game.turn_count
          /\ DOMAIN game.player_board.shots \subseteq BoardPositions(game.board_size)
          /\ game.player_board.ships # << >> =>
                \E i \in ShipIndices(game.player_board) :
                    OccupiedCells(game.player_board.ships[i])
                        \ DOMAIN game.player_board.shots # {}
          /\ op = "play_turn" => game.turn_count < game.board_size * game.board_size
    /\ game.turn_count = game.board_size * game.board_size => game.game_over
    /\ Listed(game.ai_strategy.shots) = BoardPositions(game.board_size)
          => FleetSunk(game.player_board)

\* A game on the board that holds the fleet, lost to the strategy after more
\* than half of the N * N turns, the strategy having missed on the way.
C15_Witness ==
    /\ game.board_size = GameBoardSize
    /\ game.game_over
    /\ game.winner = "AI"
    /\ 2 * game.turn_count > game.board_size * game.board_size
    /\ \E p \in DOMAIN game.player_board.shots : game.player_board.shots[p] = Miss
    /\ op = "play_turn"

(* C16: every simulated game of the benchmark loop ends.  In every state of *)
(* benchmark_strategy, the turn count of the game being played is at most   *)
(* N * N for the board size N, and below N * N while the game goes on: the  *)
(* board then holds one recorded shot per turn, and so does the strategy's  *)
(* history; every turn count appended to turns is at most N * N; and the    *)
(* position a pass of the loop hands to receive_shot and register_result is *)
(* a cell of the board, never the sentinel (-1, -1).                        *)
C16_BenchmarkGameEnds ==
    /\ bench.turn_count <= DefaultBoardSize * DefaultBoardSize
    /\ \A k \in 1..Len(bench.turns) :
          bench.turns[k] \in 1..(DefaultBoardSize * DefaultBoardSize)
    /\ bench.pc # "raised"
    /\ bench.pc = "while" =>
          /\ bench.turn_count < board.size * board.size
          /\ RecordedShots(board) = bench.turn_count
          /\ Len(strategy.shots) = bench.turn_count
          /\ Listed(strategy.shots) = DOMAIN board.shots
          /\ ~FleetSunk(board)
    /\ op = "take_shot" =>
          /\ arg # Sentinel
          /\ arg \in BoardPositions(board.size)
          /\ strategy.shots[Len(strategy.shots)] = arg
          /\ board.shots[arg] = ret.value
          /\ bench.pc = "for" <=> FleetSunk(board)

\* The last shot of a second game: the strategy was reset after a first game
\* that took more shots than the fleet has cells.
C16_Witness ==
    /\ op = "take_shot"
    /\ bench.pc = "for"
    /\ Len(bench.turns) = 2
    /\ bench.turns[2] = bench.turn_count
    /\ bench.turns[1] > Len(strategy.hits)

(* C17: the strategy's bookkeeping mirrors the player's board.  In every    *)
(* state of a Game driven by setup_game, player_shoot, ai_shoot and         *)
(* play_turn, the strategy's shot history has no duplicates and holds       *)
(* exactly the positions of the player's board's shot record, its hit       *)
(* history exactly the positions recorded Hit there and its miss history    *)
(* exactly those recorded Miss.                                             *)
C17_StrategyMirrorsPlayerBoard ==
    /\ Cardinality(Listed(game.ai_strategy.shots)) = Len(game.ai_strategy.shots)
    /\ Listed(game.ai_strategy.shots) = DOMAIN game.player_board.shots
    /\ Listed(game.ai_strategy.hits)
          = { p \in DOMAIN game.player_board.shots : game.player_board.shots[p] = Hit }
    /\ Listed(game.ai_strategy.misses)
          = { p \in DOMAIN game.player_board.shots : game.player_board.shots[p] = Miss }

(* C18: shots touch only the targeted side.  A player_shoot step leaves the *)
(* player's board, the strategy (its histories), turn_count and board_size  *)
(* as they were, and an ai_shoot step leaves the AI's board as it was.  A   *)
(* player_shoot(p) on a terminal game changes nothing of the game; on a     *)
(* running game it changes at most the AI board's record for p (set once,   *)
(* never revised), the hit set of a ship occupying p (to which it adds at   *)
(* most p), game_over and winner.                                           *)
C18_ShotsTouchTargetedSide ==
    [][ /\ op' = "ai_shoot" => game'.ai_board = game.ai_board
        /\ op' = "player_shoot" =>
              /\ game'.player_board = game.player_board
              /\ game'.ai_strategy = game.ai_strategy
              /\ game'.turn_count = game.turn_count
              /\ game'.board_size = game.board_size
              /\ game.game_over => game' = game
              /\ game'.ai_board.size = game.ai_board.size
              /\ DOMAIN game'.ai_board.shots \subseteq DOMAIN game.ai_board.shots \cup { arg' }
              /\ \A p \in DOMAIN game.ai_board.shots :
                    /\ p \in DOMAIN game'.ai_board.shots
                    /\ game'.ai_board.shots[p] = game.ai_board.shots[p]
              /\ ShipIndices(game'.ai_board) = ShipIndices(game.ai_board)
              /\ \A i \in ShipIndices(game.ai_board) :
                    IF arg' \in OccupiedCells(game.ai_board.ships[i])
                    THEN \E added \in SUBSET { arg' } :
                            game'.ai_board.ships[i] =
                                [game.ai_board.ships[i] EXCEPT !.hit_positions = @ \cup added]
                    ELSE game'.ai_board.ships[i] = game.ai_board.ships[i]
      ]_vars

\* A player_shoot that hit a ship of a game in which the strategy has shot at
\* the player's board before.
C18_Witness ==
    /\ op = "player_shoot"
    /\ ret = Returned(Hit)
    /\ \E i \in ShipIndices(game.ai_board) : arg \in game.ai_board.ships[i].hit_positions
    /\ game.player_board.shots # NoShots
    /\ game.ai_strategy.shots # << >>
    /\ ~game.game_over

(* C19: winner consistency.  In every state of a Game driven by setup_game, *)
(* player_shoot, ai_shoot and play_turn, winner is set if and only if       *)
(* game_over is true; winner "Player" implies that every ship of the AI's   *)
(* board is sunk, and winner "AI" that every ship of the player's board is. *)
C19_WinnerConsistent ==
    /\ game.winner # "None" <=> game.game_over
    /\ game.winner \in { "None", "Player", "AI" }
    /\ game.winner = "Player" => FleetSunk(game.ai_board)
    /\ game.winner = "AI" => FleetSunk(game.player_board)

(* C20: recorded shots stay on the board.  In every state of a Game driven  *)
(* by setup_game, player_shoot, ai_shoot and play_turn with positions on    *)
(* and off the board, every position in the shot record of the player's     *)
(* board and of the AI's board has its row and its column in 0..size-1.     *)
C20_RecordedShotsOnBoard ==
    /\ DOMAIN game.player_board.shots \subseteq BoardPositions(game.player_board.size)
    /\ DOMAIN game.ai_board.shots \subseteq BoardPositions(game.ai_board.size)

====
